---- MODULE Spec2Model ----
(***************************************************************************)
(* A model of parchment's Registry (src/src/registry.ts): the four         *)
(* per-instance indices (types, attributes, classes, tags), the static     *)
(* node -> blot table Registry.blots, and the operations register, query,  *)
(* create and find.                                                        *)
(*                                                                         *)
(* Definitions (blot constructors and attributors) and DOM nodes are       *)
(* objects with identity: the model names each by an id, and the indices   *)
(* hold ids (references), never copies of the fields.  Index keys are      *)
(* ordinary strings, none of them the name of a member of Object.prototype.*)
(***************************************************************************)
EXTENDS Integers, Sequences, FiniteSets, TLC

\* ------------------------------------------------------------------ bounds
MaxRegs == 2
MaxBatch == 2
MaxCreates == 2

\* ------------------------------------------------------------------ values
\* JavaScript's undefined / null: a missing index entry, a missing field.
Undefined == "<undefined>"

\* Scope (two lower bits: type axis, two higher bits: level axis).
TYPE == 3
LEVEL == 12
INLINE == 7
BLOCK == 11
BLOCK_BLOT == 10
INLINE_BLOT == 6
BLOCK_ATTRIBUTE == 9
INLINE_ATTRIBUTE == 5
ANY == 15

Scopes == 0..15

RECURSIVE BitAnd(_, _)
\* JavaScript's & on non-negative integers.
BitAnd(a, b) ==
  IF a = 0 \/ b = 0 THEN 0
  ELSE 2 * BitAnd(a \div 2, b \div 2) + (IF a % 2 = 1 /\ b % 2 = 1 THEN 1 ELSE 0)

\* String.prototype.toUpperCase on the tag alphabet of the model.
toUpperCase(s) ==
  CASE s = "x" -> "X"
    [] s = "y" -> "Y"
    [] OTHER -> s

\* A tagName field: undefined, one string, or an array of strings.
NoTag == [arr |-> FALSE, v |-> <<>>]
OneTag(s) == [arr |-> FALSE, v |-> <<s>>]
TagArray(ss) == [arr |-> TRUE, v |-> ss]

\* ------------------------------------------------------------- definitions
\* The definition objects of the model: blot constructors (static blotName,
\* tagName, className, scope), attributors (attrName, keyName, scope) and
\* one object that is neither.
DefObj ==
  [ BlockBlot    |-> [kind |-> "blot", name |-> "block", tagName |-> OneTag("y"),
                      className |-> Undefined, keyName |-> Undefined, scope |-> BLOCK_BLOT],
    InlineBlot   |-> [kind |-> "blot", name |-> "inline", tagName |-> NoTag,
                      className |-> "c1", keyName |-> Undefined, scope |-> INLINE_BLOT],
    TextBlot     |-> [kind |-> "blot", name |-> "text", tagName |-> NoTag,
                      className |-> Undefined, keyName |-> Undefined, scope |-> INLINE_BLOT],
    AuthorBlot   |-> [kind |-> "blot", name |-> "a", tagName |-> OneTag("x"),
                      className |-> "c1", keyName |-> Undefined, scope |-> INLINE_BLOT],
    HeaderBlot   |-> [kind |-> "blot", name |-> "b", tagName |-> OneTag("X"),
                      className |-> Undefined, keyName |-> Undefined, scope |-> BLOCK_BLOT],
    ListItem     |-> [kind |-> "blot", name |-> "a", tagName |-> TagArray(<<"x", "Y">>),
                      className |-> "c2", keyName |-> Undefined, scope |-> BLOCK_BLOT],
    BoldBlot     |-> [kind |-> "blot", name |-> "inline", tagName |-> OneTag("X"),
                      className |-> Undefined, keyName |-> Undefined, scope |-> INLINE_BLOT],
    ShadowBlot   |-> [kind |-> "blot", name |-> "abstract", tagName |-> OneTag("x"),
                      className |-> "c1", keyName |-> Undefined, scope |-> INLINE_BLOT],
    Color        |-> [kind |-> "attr", name |-> "color", tagName |-> NoTag,
                      className |-> Undefined, keyName |-> "k", scope |-> INLINE_ATTRIBUTE],
    Align        |-> [kind |-> "attr", name |-> "block", tagName |-> NoTag,
                      className |-> Undefined, keyName |-> "b", scope |-> BLOCK_ATTRIBUTE],
    Id           |-> [kind |-> "attr", name |-> "k", tagName |-> NoTag,
                      className |-> Undefined, keyName |-> Undefined, scope |-> 1],  \* the attribute bit alone
    Reserved     |-> [kind |-> "attr", name |-> "abstract", tagName |-> NoTag,
                      className |-> Undefined, keyName |-> Undefined, scope |-> INLINE_ATTRIBUTE],
    NotADef      |-> [kind |-> "invalid", name |-> Undefined, tagName |-> NoTag,
                      className |-> Undefined, keyName |-> Undefined, scope |-> 0] ]

Defs == DOMAIN DefObj

isBlotConstructor(d) == DefObj[d].kind = "blot"
isAttributor(d) == DefObj[d].kind = "attr"

\* The strings a query or a create may be given.
Strings == {"block", "inline", "text", "a", "b", "k", "color", "abstract", "zz"}

\* ------------------------------------------------------------------- nodes
\* A class attribute is a string; the model writes it as the sequence of its
\* parts, " " for one whitespace character and a name for a run of other
\* characters (two names are never adjacent).  A node without the attribute
\* has the empty string: query reads getAttribute('class') || ''.
Throws == "<throws>"

NodeObj ==
  [ n1 |-> [kind |-> "element", tagName |-> "DIV", class |-> <<>>, parentNode |-> Undefined],
    n2 |-> [kind |-> "element", tagName |-> "X", class |-> <<"c1">>, parentNode |-> "n1"],
    n3 |-> [kind |-> "element", tagName |-> "X", class |-> <<>>, parentNode |-> "n2"],
    n4 |-> [kind |-> "element", tagName |-> "Y", class |-> <<" ", "zz", " ", " ", "c2", " ", "c1">>,
            parentNode |-> "n2"],
    n5 |-> [kind |-> "text", tagName |-> Undefined, class |-> <<>>, parentNode |-> "n3"],
    n6 |-> [kind |-> "element", tagName |-> "Y", class |-> <<"c1", " ", "c2", " ">>,
            parentNode |-> "n3"],
    n7 |-> [kind |-> "element", tagName |-> "X", class |-> <<"zz">>, parentNode |-> Throws],
    n8 |-> [kind |-> "element", tagName |-> "x", class |-> <<>>, parentNode |-> "n7"] ]

\* The nodes of the document, and the nodes blot factories synthesize.
DocNodes == DOMAIN NodeObj
NewNodeSeq == <<"new1", "new2", "new3">>
NewNodes == {NewNodeSeq[i] : i \in 1..Len(NewNodeSeq)}
Nodes == DocNodes \cup NewNodes

\* node.parentNode: a node, null, or an access that throws.
parentNode(n) == IF n \in DocNodes THEN NodeObj[n].parentNode ELSE Undefined

\* The node that holds n in the document, whether or not the link to it can
\* be read: n7 is content of n2 that scripts are denied the way out of.
Container(n) ==
  IF n \notin DocNodes THEN Undefined
  ELSE IF NodeObj[n].parentNode = Throws THEN "n2"
  ELSE NodeObj[n].parentNode

RECURSIVE SplitFrom(_, _, _, _)
\* s.split(/\s+/), scanning s from position i; cur is the token being read
\* and sp whether the previous character was whitespace.
SplitFrom(s, i, cur, sp) ==
  IF i > Len(s) THEN <<cur>>
  ELSE IF s[i] = " "
       THEN IF sp THEN SplitFrom(s, i + 1, cur, TRUE)
            ELSE <<cur>> \o SplitFrom(s, i + 1, "", TRUE)
       ELSE SplitFrom(s, i + 1, s[i], FALSE)

Split(s) == SplitFrom(s, 1, "", FALSE)

\* ------------------------------------------------------- JavaScript helpers
\* A plain object used as a map: obj[k], and obj[k] = v.
Get(m, k) == IF k \in DOMAIN m THEN m[k] ELSE Undefined
Put(m, k, v) == [x \in DOMAIN m \cup {k} |-> IF x = k THEN v ELSE m[x]]
EmptyMap == [x \in {} |-> Undefined]

\* a || b on values that are undefined or objects.
Or(a, b) == IF a # Undefined THEN a ELSE b

\* Truthiness of a className (a string or undefined) and of a tagName.
TruthyString(s) == s # Undefined /\ s # ""
TruthyTag(t) == t.arr \/ (t.v # <<>> /\ TruthyString(t.v[1]))

\* ---------------------------------------------------------------- register
\* The state one register call works on: the four indices of the instance,
\* the tagName fields of the definition objects, the error thrown (if any)
\* and the definitions already mapped.
EmptyRegistry ==
  [types |-> EmptyMap, attributes |-> EmptyMap, classes |-> EmptyMap, tags |-> EmptyMap]

\* Faulty variant: the tags are left as they were declared.
NormalizedTagAsDeclared(t) == t

\* definition.tagName after the in-place upper-casing.
NormalizedTag(t) == [arr |-> t.arr, v |-> [i \in 1..Len(t.v) |-> toUpperCase(t.v[i])]]

\* Faulty variants of the tag guard: every declarer takes the tag; only the first does.
TagInsertAlways(tagsMap, tag, d) == TRUE
TagInsertIfFree(tagsMap, tag, d) == Get(tagsMap, tag) = Undefined

\* Faulty variant: a definition also takes the tag from a holder of its name.
TagInsertOverSameName(tagsMap, tag, d) ==
  \/ Get(tagsMap, tag) = Undefined
  \/ DefObj[d].className = Undefined
  \/ DefObj[Get(tagsMap, tag)].name = DefObj[d].name

\* The guard of the tag insertion.
TagInsertAllowed(tagsMap, tag, d) ==
  Get(tagsMap, tag) = Undefined \/ DefObj[d].className = Undefined

RECURSIVE InsertTags(_, _, _, _)
\* tagNames.forEach over tagNames[i..].
InsertTags(tagsMap, tagNames, i, d) ==
  IF i > Len(tagNames) THEN tagsMap
  ELSE InsertTags(IF TagInsertAllowed(tagsMap, tagNames[i], d)
                  THEN Put(tagsMap, tagNames[i], d) ELSE tagsMap,
                  tagNames, i + 1, d)

\* Faulty variant: the first definition of a name is kept.
InsertTypeKeepFirst(typesMap, key, d) ==
  IF key \in DOMAIN typesMap THEN typesMap ELSE Put(typesMap, key, d)

\* this.types[key] = definition
InsertType(typesMap, key, d) == Put(typesMap, key, d)

\* Faulty variant: a class name stays with the first definition that took it.
InsertClassKeepFirst(classesMap, d) ==
  IF TruthyString(DefObj[d].className) /\ Get(classesMap, DefObj[d].className) = Undefined
  THEN Put(classesMap, DefObj[d].className, d)
  ELSE classesMap

\* this.classes[definition.className] = definition
InsertClass(classesMap, d) ==
  IF TruthyString(DefObj[d].className) THEN Put(classesMap, DefObj[d].className, d)
  ELSE classesMap

\* this.attributes[definition.keyName] = definition
InsertAttribute(attributesMap, d) ==
  IF DefObj[d].keyName # Undefined THEN Put(attributesMap, DefObj[d].keyName, d)
  ELSE attributesMap

\* Faulty variant: the name is not tested against "abstract".
RegisterOneAbstractAllowed(S, d) ==
  LET isBlot == isBlotConstructor(d)
      isAttr == isAttributor(d)
  IN IF ~isBlot /\ ~isAttr THEN [S EXCEPT !.err = "Invalid definition"]
     ELSE LET key == DefObj[d].name
              S1 == [S EXCEPT !.types = InsertType(S.types, key, d),
                              !.done = Append(S.done, d)]
          IN IF isAttr
             THEN [S1 EXCEPT !.attributes = InsertAttribute(S1.attributes, d)]
             ELSE LET S2 == [S1 EXCEPT !.classes = InsertClass(S1.classes, d)]
                  IN IF TruthyTag(S2.tagName[d])
                     THEN LET t == NormalizedTag(S2.tagName[d])
                          IN [S2 EXCEPT !.tagName[d] = t,
                                        !.tags = InsertTags(S2.tags, t.v, 1, d)]
                     ELSE S2

\* Faulty variant: the tags are inserted as the tagName field holds them, and
\* the field is upper-cased afterwards.
RegisterOneTagsBeforeUpperCase(S, d) ==
  LET isBlot == isBlotConstructor(d)
      isAttr == isAttributor(d)
  IN IF ~isBlot /\ ~isAttr THEN [S EXCEPT !.err = "Invalid definition"]
     ELSE IF isBlot /\ DefObj[d].name = "abstract"
     THEN [S EXCEPT !.err = "Cannot register abstract class"]
     ELSE LET key == DefObj[d].name
              S1 == [S EXCEPT !.types = InsertType(S.types, key, d),
                              !.done = Append(S.done, d)]
          IN IF isAttr
             THEN [S1 EXCEPT !.attributes = InsertAttribute(S1.attributes, d)]
             ELSE LET S2 == [S1 EXCEPT !.classes = InsertClass(S1.classes, d)]
                  IN IF TruthyTag(S2.tagName[d])
                     THEN [S2 EXCEPT !.tagName[d] = NormalizedTag(S2.tagName[d]),
                                     !.tags = InsertTags(S2.tags, S2.tagName[d].v, 1, d)]
                     ELSE S2

\* Faulty variant: the name is tested against "abstract" after the by-name
\* insertion.
RegisterOneAbstractLate(S, d) ==
  LET isBlot == isBlotConstructor(d)
      isAttr == isAttributor(d)
  IN IF ~isBlot /\ ~isAttr THEN [S EXCEPT !.err = "Invalid definition"]
     ELSE LET key == DefObj[d].name
              S1 == [S EXCEPT !.types = InsertType(S.types, key, d)]
          IN IF isBlot /\ DefObj[d].name = "abstract"
             THEN [S1 EXCEPT !.err = "Cannot register abstract class"]
             ELSE IF isAttr
             THEN [S1 EXCEPT !.attributes = InsertAttribute(S1.attributes, d),
                             !.done = Append(S.done, d)]
             ELSE LET S2 == [S1 EXCEPT !.classes = InsertClass(S1.classes, d),
                                       !.done = Append(S.done, d)]
                  IN IF TruthyTag(S2.tagName[d])
                     THEN LET t == NormalizedTag(S2.tagName[d])
                          IN [S2 EXCEPT !.tagName[d] = t,
                                        !.tags = InsertTags(S2.tags, t.v, 1, d)]
                     ELSE S2

\* The body of the map callback for one definition d.
RegisterOne(S, d) ==
  LET isBlot == isBlotConstructor(d)
      isAttr == isAttributor(d)
  IN IF ~isBlot /\ ~isAttr THEN [S EXCEPT !.err = "Invalid definition"]
     ELSE IF isBlot /\ DefObj[d].name = "abstract"
     THEN [S EXCEPT !.err = "Cannot register abstract class"]
     ELSE LET key == DefObj[d].name
              S1 == [S EXCEPT !.types = InsertType(S.types, key, d),
                              !.done = Append(S.done, d)]
          IN IF isAttr
             THEN [S1 EXCEPT !.attributes = InsertAttribute(S1.attributes, d)]
             ELSE LET S2 == [S1 EXCEPT !.classes = InsertClass(S1.classes, d)]
                  IN IF TruthyTag(S2.tagName[d])
                     THEN LET t == NormalizedTag(S2.tagName[d])
                          IN [S2 EXCEPT !.tagName[d] = t,
                                        !.tags = InsertTags(S2.tags, t.v, 1, d)]
                     ELSE S2

RECURSIVE RegisterFromKeepGoing(_, _, _)
\* Faulty variant: the error of a definition is kept for the end of the map,
\* and the definitions after it are mapped all the same.
RegisterFromKeepGoing(S, definitions, i) ==
  IF i > Len(definitions) THEN S
  ELSE LET S1 == RegisterOne([S EXCEPT !.err = ""], definitions[i])
       IN RegisterFromKeepGoing([S1 EXCEPT !.err = IF S.err # "" THEN S.err ELSE S1.err],
                                definitions, i + 1)

RECURSIVE RegisterFrom(_, _, _)
\* definitions.map over definitions[i..]: a throw ends the call, and what
\* the earlier definitions inserted stays.
RegisterFrom(S, definitions, i) ==
  IF i > Len(definitions) \/ S.err # "" THEN S
  ELSE RegisterFrom(RegisterOne(S, definitions[i]), definitions, i + 1)

\* register(...definitions) on an instance with indices reg, the definition
\* objects' tagName fields being tn.
register(reg, tn, definitions) ==
  RegisterFrom([types |-> reg.types, attributes |-> reg.attributes,
                classes |-> reg.classes, tags |-> reg.tags,
                tagName |-> tn, err |-> "", done |-> <<>>], definitions, 1)

\* ------------------------------------------------------------------- query
\* A query key: a string, a number (a Scope) or a node.
StrKey(s) == [t |-> "string", s |-> s, v |-> 0, n |-> Undefined]
NumKey(v) == [t |-> "number", s |-> Undefined, v |-> v, n |-> Undefined]
NodeKey(n) == [t |-> "node", s |-> Undefined, v |-> 0, n |-> n]
NullKey == [t |-> "null", s |-> Undefined, v |-> 0, n |-> Undefined]

\* Faulty variant: the attribute keys are looked up before the names.
StringMatchKeyFirst(reg, s) == Or(Get(reg.attributes, s), Get(reg.types, s))

\* typeof query === 'string'
StringMatch(reg, s) == Or(Get(reg.types, s), Get(reg.attributes, s))

\* query instanceof Text
TextMatch(reg) == Get(reg.types, "text")

\* Faulty variant: the inline level is tested before the block level.
NumberMatchInlineFirst(reg, v) ==
  IF BitAnd(BitAnd(v, LEVEL), INLINE) # 0 THEN Get(reg.types, "inline")
  ELSE IF BitAnd(BitAnd(v, LEVEL), BLOCK) # 0 THEN Get(reg.types, "block")
  ELSE Undefined

\* typeof query === 'number'
NumberMatch(reg, v) ==
  IF BitAnd(BitAnd(v, LEVEL), BLOCK) # 0 THEN Get(reg.types, "block")
  ELSE IF BitAnd(BitAnd(v, LEVEL), INLINE) # 0 THEN Get(reg.types, "inline")
  ELSE Undefined

RECURSIVE SomeClass(_, _, _, _)
\* names.some(...): the value match is left with, from names[i..].
SomeClass(classesMap, names, i, match) ==
  IF i > Len(names) THEN match
  ELSE LET m == Get(classesMap, names[i])
       IN IF m # Undefined THEN m ELSE SomeClass(classesMap, names, i + 1, m)

\* Faulty variant: the tag is looked up before the classes.
ElementMatchTagFirst(reg, n) ==
  Or(Get(reg.tags, NodeObj[n].tagName),
     SomeClass(reg.classes, Split(NodeObj[n].class), 1, Undefined))

\* query instanceof Element
ElementMatch(reg, n) ==
  Or(SomeClass(reg.classes, Split(NodeObj[n].class), 1, Undefined),
     Get(reg.tags, NodeObj[n].tagName))

\* The match before the scope filter.
Match(reg, q) ==
  CASE q.t = "string" -> StringMatch(reg, q.s)
    [] q.t = "number" -> NumberMatch(reg, q.v)
    [] q.t = "node" /\ NodeObj[q.n].kind = "text" -> TextMatch(reg)
    [] q.t = "node" /\ NodeObj[q.n].kind = "element" -> ElementMatch(reg, q.n)
    [] OTHER -> Undefined

\* Faulty variant: one axis is enough.
ScopePermitsEither(scope, match) ==
  \/ BitAnd(BitAnd(scope, LEVEL), DefObj[match].scope) # 0
  \/ BitAnd(BitAnd(scope, TYPE), DefObj[match].scope) # 0

\* The two-axis scope test on a match.
ScopePermits(scope, match) ==
  /\ BitAnd(BitAnd(scope, LEVEL), DefObj[match].scope) # 0
  /\ BitAnd(BitAnd(scope, TYPE), DefObj[match].scope) # 0

\* The scope filter: the match, or null when the scope test fails.
ScopeFilter(match, scope) ==
  IF match = Undefined THEN Undefined
  ELSE IF ScopePermits(scope, match) THEN match
  ELSE Undefined

\* query(query, scope)
query(reg, q, scope) == ScopeFilter(Match(reg, q), scope)

\* -------------------------------------------------------------------- find
RECURSIVE findAlwaysBubble(_, _, _)
\* Faulty variant: the parent links are walked whatever bubble says.
findAlwaysBubble(tbl, node, bubble) ==
  IF node = Undefined THEN Undefined
  ELSE IF node \in DOMAIN tbl THEN tbl[node]
  ELSE IF parentNode(node) = Throws THEN Undefined
  ELSE findAlwaysBubble(tbl, parentNode(node), bubble)

RECURSIVE find(_, _, _)
\* Registry.find(node, bubble) on the table tbl.
find(tbl, node, bubble) ==
  IF node = Undefined THEN Undefined
  ELSE IF node \in DOMAIN tbl THEN tbl[node]
  ELSE IF bubble
       THEN IF parentNode(node) = Throws THEN Undefined
            ELSE find(tbl, parentNode(node), bubble)
       ELSE Undefined

\* ------------------------------------------------------------------- state
Registries == {"r1", "r2"}
\* The caller of the static Registry.find.
Static == "Registry"

\* The blot objects, in the order they are constructed.
BlotSeq == <<"blot1", "blot2", "blot3", "blot4">>

VARIABLES
  types,       \* per instance: this.types, name -> definition
  attributes,  \* per instance: this.attributes, key name -> attributor
  classes,     \* per instance: this.classes, class name -> blot constructor
  tags,        \* per instance: this.tags, tag name -> blot constructor
  tagName,     \* the tagName field of every definition object (upper-cased in place)
  blots,       \* Registry.blots: node -> blot
  blotObjs,    \* the blots constructed so far: their definition, domNode and creator
  log,         \* history: the definitions mapped by register calls, in order
  ret,         \* the last call: its operation, arguments, result and error
  walk         \* the find call in progress: its arguments and the node it is at

vars == <<types, attributes, classes, tags, tagName, blots, blotObjs, log, ret, walk>>

RegOf(r) ==
  [types |-> types[r], attributes |-> attributes[r], classes |-> classes[r], tags |-> tags[r]]

Call(op, r, key, scope, bubble, batch, val, err) ==
  [op |-> op, r |-> r, key |-> key, scope |-> scope, bubble |-> bubble,
   batch |-> batch, val |-> val, err |-> err]

NoCall == Call("none", Undefined, NullKey, 0, FALSE, <<>>, Undefined, "")

\* No find call is in progress.
NoWalk == [active |-> FALSE, via |-> Undefined, start |-> Undefined, at |-> Undefined,
           bubble |-> FALSE, hops |-> 0]

\* The arguments of new Registry(blots, attributors) in the model.
CtorArgs ==
  { [blots |-> <<>>, attributors |-> <<>>],
    [blots |-> <<"BlockBlot", "InlineBlot", "TextBlot", "AuthorBlot">>,
     attributors |-> <<"Color">>],
    [blots |-> <<"HeaderBlot", "ListItem">>, attributors |-> <<"Align", "Id">>] }

\* constructor(blots, attributors): two register calls on the new instance.
Construct(tn, args) ==
  LET S1 == register(EmptyRegistry, tn, args.blots)
  IN register(S1, S1.tagName, args.attributors)

LogOf(r, done) == [i \in 1..Len(done) |-> [r |-> r, d |-> done[i]]]

\* Two instances, constructed one after the other.
InitWith(a1, a2) ==
  LET T0 == [d \in Defs |-> DefObj[d].tagName]
      R1 == Construct(T0, a1)
      R2 == Construct(R1.tagName, a2)
      R(r) == IF r = "r1" THEN R1 ELSE R2
  IN /\ types = [r \in Registries |-> R(r).types]
     /\ attributes = [r \in Registries |-> R(r).attributes]
     /\ classes = [r \in Registries |-> R(r).classes]
     /\ tags = [r \in Registries |-> R(r).tags]
     /\ tagName = R2.tagName
     /\ blots = EmptyMap
     /\ blotObjs = <<>>
     /\ log = LogOf("r1", a1.blots \o a1.attributors) \o LogOf("r2", a2.blots \o a2.attributors)
     /\ ret = NoCall
     /\ walk = NoWalk

NoArgs == [blots |-> <<>>, attributors |-> <<>>]

\* new Registry() twice.
InitEmpty == InitWith(NoArgs, NoArgs)

\* new Registry(blots, attributors) twice.
Init == \E a1, a2 \in CtorArgs : InitWith(a1, a2)

\* ----------------------------------------------------------------- actions
\* The argument lists of a register call that maps at most n definitions.
Batches(n) == UNION {[1..k -> Defs] : k \in 0..(IF n < MaxBatch THEN n ELSE MaxBatch)}

\* registry r: register(...definitions)
Register(r, definitions) ==
  /\ Len(log) + Len(definitions) <= MaxRegs
  /\ \E S \in {register(RegOf(r), tagName, definitions)} :
        /\ types' = [types EXCEPT ![r] = S.types]
        /\ attributes' = [attributes EXCEPT ![r] = S.attributes]
        /\ classes' = [classes EXCEPT ![r] = S.classes]
        /\ tags' = [tags EXCEPT ![r] = S.tags]
        /\ tagName' = S.tagName
        /\ log' = log \o LogOf(r, S.done)
        /\ ret' = Call("register", r, NullKey, 0, FALSE, definitions, Undefined, S.err)
  /\ UNCHANGED <<blots, blotObjs, walk>>

\* The keys and scopes the query, create and find steps are called with.
QueryKeys ==
  {StrKey(s) : s \in {"a", "k", "block"}} \cup {NumKey(v) : v \in {ANY, INLINE}}
    \cup {NodeKey(n) : n \in {"n2", "n3", "n5"}}
QueryScopes == {ANY, BLOCK}
CreateKeys ==
  {StrKey("a"), StrKey("block"), StrKey("k"), StrKey("zz"), NumKey(INLINE),
   NodeKey("n2"), NodeKey("n3"), NodeKey("n5")}
FindNodes == {Undefined, "n2", "n3", "n5", "n6", "n8", "new1"}

\* registry r: query(q, scope)
Query(r, q, scope) ==
  /\ ret' = Call("query", r, q, scope, FALSE, <<>>, query(RegOf(r), q, scope), "")
  /\ UNCHANGED <<types, attributes, classes, tags, tagName, blots, blotObjs, log, walk>>

\* The node blotClass.create(value) synthesizes: a new node each time.
NewNode == NewNodeSeq[Cardinality({i \in 1..Len(blotObjs) : blotObjs[i].domNode \in NewNodes}) + 1]

\* Faulty variants: the association is not stored; an existing one is kept.
SetBlotDropped(tbl, node, blot) == tbl
SetBlotKeepFirst(tbl, node, blot) == IF node \in DOMAIN tbl THEN tbl ELSE Put(tbl, node, blot)

\* Faulty variant: the table is replaced by one that holds the new entry.
SetBlotInNewTable(tbl, node, blot) == Put(EmptyMap, node, blot)

\* Registry.blots.set(blot.domNode, blot)
SetBlot(tbl, node, blot) == Put(tbl, node, blot)

\* Faulty variant: the null test on the match is missing, and a null match
\* fails like any other value that is no constructor.
CreateWithoutNullCheck(r, input) ==
  /\ Len(blotObjs) < MaxCreates
  /\ LET match == query(RegOf(r), input, ANY)
     IN IF match = Undefined \/ ~isBlotConstructor(match)
        THEN /\ ret' = Call("create", r, input, ANY, FALSE, <<>>, Undefined, "TypeError")
             /\ UNCHANGED <<blots, blotObjs>>
        ELSE LET node == IF input.t = "node" THEN input.n ELSE NewNode
                 blot == BlotSeq[Len(blotObjs) + 1]
             IN /\ blotObjs' = Append(blotObjs, [def |-> match, domNode |-> node, r |-> r])
                /\ blots' = SetBlot(blots, node, blot)
                /\ ret' = Call("create", r, input, ANY, FALSE, <<>>, blot, "")
  /\ UNCHANGED <<types, attributes, classes, tags, tagName, log, walk>>

\* registry r: create(scroll, input, value).  An attributor is an object with
\* no create factory and is no constructor: when the match is one, line 78
\* or line 80 throws a TypeError before anything is stored.
Create(r, input) ==
  /\ Len(blotObjs) < MaxCreates
  /\ LET match == query(RegOf(r), input, ANY)
     IN IF match = Undefined
        THEN /\ ret' = Call("create", r, input, ANY, FALSE, <<>>, Undefined, "Unable to create blot")
             /\ UNCHANGED <<blots, blotObjs>>
        ELSE IF ~isBlotConstructor(match)
        THEN /\ ret' = Call("create", r, input, ANY, FALSE, <<>>, Undefined, "TypeError")
             /\ UNCHANGED <<blots, blotObjs>>
        ELSE LET node == IF input.t = "node" THEN input.n ELSE NewNode
                 blot == BlotSeq[Len(blotObjs) + 1]
             IN /\ blotObjs' = Append(blotObjs, [def |-> match, domNode |-> node, r |-> r])
                /\ blots' = SetBlot(blots, node, blot)
                /\ ret' = Call("create", r, input, ANY, FALSE, <<>>, blot, "")
  /\ UNCHANGED <<types, attributes, classes, tags, tagName, log, walk>>

\* find(node, bubble), called on Registry or on an instance
Find(via, node, bubble) ==
  /\ ret' = Call("find", via, IF node = Undefined THEN NullKey ELSE NodeKey(node), 0,
                 bubble, <<>>, find(blots, node, bubble), "")
  /\ UNCHANGED <<types, attributes, classes, tags, tagName, blots, blotObjs, log, walk>>

RegisterStep == \E definitions \in Batches(MaxRegs - Len(log)) : Register("r1", definitions)
QueryStep == \E q \in QueryKeys, scope \in QueryScopes : Query("r1", q, scope)
CreateStep == \E r \in Registries, input \in CreateKeys : Create(r, input)
FindStep == \E via \in Registries \cup {Static}, node \in FindNodes, bubble \in BOOLEAN :
              Find(via, node, bubble)

\* One instance, registrations and queries.
NextRegistry == RegisterStep \/ QueryStep
SpecRegistry == InitEmpty /\ [][NextRegistry]_vars

\* Constructed instances, creates and finds over the shared table.
NextBlots == CreateStep \/ FindStep
SpecBlots == Init /\ [][NextBlots]_vars

\* One instance and the four operations in one behaviour: registrations of
\* one definition, queries, creates and finds in any order.
AllRegisterStep == \E d \in Defs : Register("r1", <<d>>)
AllQueryStep ==
  \E q \in {StrKey("a"), NumKey(ANY), NodeKey("n2"), NodeKey("n5")} : Query("r1", q, ANY)
AllCreateStep ==
  \E input \in {StrKey("a"), StrKey("zz"), NodeKey("n2"), NodeKey("n3"), NodeKey("n5")} :
    Create("r1", input)
AllFindStep == \E node \in {"n2", "n5", "new1"}, bubble \in BOOLEAN : Find(Static, node, bubble)
NextAll == AllRegisterStep \/ AllQueryStep \/ AllCreateStep \/ AllFindStep
SpecAll == InitEmpty /\ [][NextAll]_vars

\* ------------------------------------------------------- find, step by step
\* find(node, bubble) is called: the first activation is entered at node,
\* and the call has no result yet.
FindCall(via, node, bubble) ==
  /\ ~walk.active
  /\ walk' = [active |-> TRUE, via |-> via, start |-> node, at |-> node,
              bubble |-> bubble, hops |-> 0]
  /\ ret' = Call("finding", via, IF node = Undefined THEN NullKey ELSE NodeKey(node), 0,
                 bubble, <<>>, Undefined, "")
  /\ UNCHANGED <<types, attributes, classes, tags, tagName, blots, blotObjs, log>>

\* The call returns val to its caller, through every activation.
FindReturn(val, err) ==
  /\ ret' = Call("find", walk.via,
                 IF walk.start = Undefined THEN NullKey ELSE NodeKey(walk.start), 0,
                 walk.bubble, <<>>, val, err)
  /\ walk' = NoWalk

\* Faulty variant: the failure of the parent link is not caught.
FindEnterUncaught ==
  /\ walk.active
  /\ IF walk.at = Undefined THEN FindReturn(Undefined, "")
     ELSE IF walk.at \in DOMAIN blots THEN FindReturn(blots[walk.at], "")
     ELSE IF walk.bubble
          THEN IF parentNode(walk.at) = Throws THEN FindReturn(Undefined, "Permission denied")
               ELSE /\ walk' = [walk EXCEPT !.at = parentNode(walk.at), !.hops = @ + 1]
                    /\ UNCHANGED ret
          ELSE FindReturn(Undefined, "")
  /\ UNCHANGED <<types, attributes, classes, tags, tagName, blots, blotObjs, log>>

\* One activation of Registry.find, at the node walk.at: it returns, or it
\* reads the parent link and calls find on the parent.
FindEnter ==
  /\ walk.active
  /\ IF walk.at = Undefined THEN FindReturn(Undefined, "")
     ELSE IF walk.at \in DOMAIN blots THEN FindReturn(blots[walk.at], "")
     ELSE IF walk.bubble
          THEN IF parentNode(walk.at) = Throws THEN FindReturn(Undefined, "")
               ELSE /\ walk' = [walk EXCEPT !.at = parentNode(walk.at), !.hops = @ + 1]
                    /\ UNCHANGED ret
          ELSE FindReturn(Undefined, "")
  /\ UNCHANGED <<types, attributes, classes, tags, tagName, blots, blotObjs, log>>

\* The calls are synchronous: a create runs between two find calls, never
\* inside one.
WalkCreateStep == ~walk.active /\ CreateStep
FindCallStep ==
  \E via \in Registries \cup {Static}, node \in FindNodes, bubble \in BOOLEAN :
    FindCall(via, node, bubble)

\* Creates and finds, a find advancing one activation at a time; a call that
\* was made runs on until it returns.
InitWalk ==
  InitWith([blots |-> <<"BlockBlot", "InlineBlot", "TextBlot", "AuthorBlot">>,
            attributors |-> <<"Color">>],
           [blots |-> <<"HeaderBlot", "ListItem">>, attributors |-> <<"Align", "Id">>])
NextWalk == WalkCreateStep \/ FindCallStep \/ FindEnter
SpecWalk == InitWalk /\ [][NextWalk]_vars /\ WF_vars(FindEnter)

\* ------------------------------------------------------ history operators
Max(S) == CHOOSE x \in S : \A y \in S : y <= x
Min(S) == CHOOSE x \in S : \A y \in S : x <= y

\* The definitions instance r has mapped, oldest first.
Registered(r) ==
  LET L == SelectSeq(log, LAMBDA e : e.r = r) IN [i \in 1..Len(L) |-> L[i].d]

\* The definition instance r mapped last under the name N.
LastNamed(r, N) ==
  LET L == Registered(r)
      I == {i \in 1..Len(L) : DefObj[L[i]].name = N}
  IN IF I = {} THEN Undefined ELSE L[Max(I)]

\* The attributor instance r mapped last with the key name K.
LastKeyed(r, K) ==
  LET L == Registered(r)
      I == {i \in 1..Len(L) : isAttributor(L[i]) /\ DefObj[L[i]].keyName = K}
  IN IF I = {} THEN Undefined ELSE L[Max(I)]

\* The tags a blot constructor declares, upper-cased.
DeclaredTags(d) ==
  {toUpperCase(DefObj[d].tagName.v[i]) : i \in 1..Len(DefObj[d].tagName.v)}

\* Where in Registered(r) a blot constructor declaring tag T was mapped.
Declarers(r, T) ==
  {i \in 1..Len(Registered(r)) :
     isBlotConstructor(Registered(r)[i]) /\ T \in DeclaredTags(Registered(r)[i])}

\* The tag rule: the last class-less declarer of T if there is one, else the
\* first declarer.
TagWinner(r, T) ==
  LET L == Registered(r)
      D == Declarers(r, T)
      C == {i \in D : DefObj[L[i]].className = Undefined}
  IN IF D = {} THEN Undefined
     ELSE IF C # {} THEN L[Max(C)] ELSE L[Min(D)]

TagNames == {"X", "Y", "x", "y", "DIV"}
ElementNodes == {n \in DocNodes : NodeObj[n].kind = "element"}
ClasslessNodes == {n \in ElementNodes : NodeObj[n].class = <<>>}

\* The bits of a scope, as a set of bit positions; the level axis is bits 2
\* and 3, the type axis bits 0 and 1.
Pow2(i) == CASE i = 0 -> 1 [] i = 1 -> 2 [] i = 2 -> 4 [] OTHER -> 8
Bits(x) == {i \in 0..3 : (x \div Pow2(i)) % 2 = 1}
LevelBits(x) == Bits(x) \cap {2, 3}
TypeBits(x) == Bits(x) \cap {0, 1}
Intersects(S, d) ==
  /\ LevelBits(S) \cap LevelBits(DefObj[d].scope) # {}
  /\ TypeBits(S) \cap TypeBits(DefObj[d].scope) # {}

\* A match as the scope filter lets it through.
Filtered(m, S) == IF m # Undefined /\ Intersects(S, m) THEN m ELSE Undefined

\* The state was left by a call that may have changed it: a query or a find
\* changes only ret, so what holds of the indices and the table before it
\* holds after it.
Settled == ret.op # "query" /\ ret.op # "find"

\* ----------------------------------------------------------------- claims

\* C1: query(N) under the default scope ANY returns, by identity, the
\* definition most recently registered under the name N, for every
\* registered name N whose definition has a level bit and a type bit.
C1_QueryReturnsLastRegistered ==
  /\ Settled => \A r \in Registries, N \in Strings :
       LET D == LastNamed(r, N)
       IN (D # Undefined /\ LevelBits(DefObj[D].scope) # {} /\ TypeBits(DefObj[D].scope) # {})
            => query(RegOf(r), StrKey(N), ANY) = D
  /\ (ret.op = "query" /\ ret.key.t = "string" /\ ret.scope = ANY)
       => LET D == LastNamed(ret.r, ret.key.s)
          IN (D # Undefined /\ LevelBits(DefObj[D].scope) # {} /\ TypeBits(DefObj[D].scope) # {})
               => ret.val = D

\* Two definitions named "a" were registered, and query("a") gave the later.
C1_Witness ==
  /\ Registered("r1") = <<"AuthorBlot", "ListItem">>
  /\ ret.op = "query" /\ ret.key = StrKey("a") /\ ret.scope = ANY
  /\ ret.val = "ListItem"

\* C2: by-tag[T] keeps the first registered declarer of T unless a later one
\* declares no class name, which replaces it; a class-less element with tag
\* T resolves to that entry (A = AuthorBlot, B = HeaderBlot, B' = ListItem).
C2_TagCollision ==
  /\ \A r \in Registries, T \in TagNames : Get(tags[r], T) = TagWinner(r, T)
  /\ Settled => \A r \in Registries, n \in ClasslessNodes :
       Match(RegOf(r), NodeKey(n)) = TagWinner(r, NodeObj[n].tagName)
  /\ Registered("r1") = <<"AuthorBlot", "HeaderBlot">>
       => query(RegOf("r1"), NodeKey("n3"), ANY) = "HeaderBlot"
  /\ Registered("r1") = <<"AuthorBlot", "ListItem">>
       => query(RegOf("r1"), NodeKey("n3"), ANY) = "AuthorBlot"
  /\ (ret.op = "query" /\ ret.key.t = "node" /\ ret.key.n \in ClasslessNodes)
       => ret.val = Filtered(TagWinner(ret.r, NodeObj[ret.key.n].tagName), ret.scope)

\* A (tag x, class c1) then B (tag X, no class): the class-less X element
\* resolved to B.
C2_Witness ==
  /\ Registered("r1") = <<"AuthorBlot", "HeaderBlot">>
  /\ ret.op = "query" /\ ret.key = NodeKey("n3") /\ ret.val = "HeaderBlot"

\* C3 as stated: every registered blot constructor D declaring tag T is what
\* a class-less element with tag T resolves to, under every scope that
\* intersects D's, when no class-qualified descriptor declares T (read in
\* the claim's favour: D is class-less too).
C3_EveryDeclarerResolves ==
  \A r \in Registries :
    \A i \in 1..Len(Registered(r)) :
      LET L == Registered(r)
          D == L[i]
      IN isBlotConstructor(D) =>
           \A T \in DeclaredTags(D) :
             (\A j \in Declarers(r, T) : DefObj[L[j]].className = Undefined)
               => \A n \in ClasslessNodes, S \in Scopes :
                    (NodeObj[n].tagName = T /\ Intersects(S, D))
                      => query(RegOf(r), NodeKey(n), S) = D

\* C3 (amended): the same, for a D after whose last registration no other
\* declarer of T was registered and that, when it has a class name itself,
\* is the only declarer of T.
C3_LastDeclarerResolves ==
  Settled => \A r \in Registries :
    \A i \in 1..Len(Registered(r)) :
      LET L == Registered(r)
          D == L[i]
          last == Max({k \in 1..Len(L) : L[k] = D})
      IN isBlotConstructor(D) =>
           \A T \in DeclaredTags(D) :
             (\A j \in Declarers(r, T) :
                L[j] # D => /\ DefObj[L[j]].className = Undefined
                            /\ j < last
                            /\ DefObj[D].className = Undefined)
               => \A n \in ClasslessNodes, S \in Scopes :
                    (NodeObj[n].tagName = T /\ Intersects(S, D))
                      => query(RegOf(r), NodeKey(n), S) = D

\* Two class-less declarers of X: the X element resolved to the later one.
C3_Witness ==
  /\ Registered("r1") = <<"BoldBlot", "HeaderBlot">>
  /\ ret.op = "query" /\ ret.key = NodeKey("n3") /\ ret.scope = ANY
  /\ ret.val = "HeaderBlot"

\* The first class token with a by-class entry, else the by-tag entry.
ClassThenTag(r, n) ==
  LET toks == Split(NodeObj[n].class)
      hits == {i \in 1..Len(toks) : Get(classes[r], toks[i]) # Undefined}
  IN IF hits # {} THEN classes[r][toks[Min(hits)]]
     ELSE Get(tags[r], NodeObj[n].tagName)

\* C4: an element resolves by class before tag: the match is by-class of the
\* first class token that has an entry, whatever the tag, and by-tag only
\* when no token has one; the scope filter is applied to that one match, so
\* a rejected class match gives null and not the tag entry.
C4_ClassBeforeTag ==
  /\ Settled => \A r \in Registries, n \in ElementNodes :
       Match(RegOf(r), NodeKey(n)) = ClassThenTag(r, n)
  /\ Settled =>
       \A r \in Registries, n \in ElementNodes, S \in Scopes :
         query(RegOf(r), NodeKey(n), S) = Filtered(ClassThenTag(r, n), S)
  /\ (ret.op = "query" /\ ret.key.t = "node" /\ ret.key.n \in ElementNodes)
       => ret.val = Filtered(ClassThenTag(ret.r, ret.key.n), ret.scope)

\* The class match of n2 (AuthorBlot, inline) was rejected under a block
\* scope although the tag entry (HeaderBlot, block) would have passed.
C4_Witness ==
  /\ Get(classes["r1"], "c1") = "AuthorBlot"
  /\ Get(tags["r1"], "X") = "HeaderBlot"
  /\ Intersects(BLOCK, "HeaderBlot")
  /\ ret.op = "query" /\ ret.key = NodeKey("n2") /\ ret.scope = BLOCK
  /\ ret.val = Undefined

\* Every key a query may be given.
AllKeys ==
  {StrKey(s) : s \in Strings} \cup {NumKey(v) : v \in Scopes} \cup {NodeKey(n) : n \in DocNodes}

\* C5: the scope filter is conjunctive over the two axes: query(key, S)
\* returns the matched definition M iff S and M.scope share a level bit and
\* share a type bit, and null otherwise.
C5_ScopeFilterConjunctive ==
  /\ Settled =>
       \A r \in Registries, q \in AllKeys :
         \A M \in {Match(RegOf(r), q)} :
           /\ \A S \in Scopes :
                ScopeFilter(M, S) =
                  (IF M # Undefined /\ LevelBits(S) \cap LevelBits(DefObj[M].scope) # {}
                                    /\ TypeBits(S) \cap TypeBits(DefObj[M].scope) # {}
                   THEN M ELSE Undefined)
           /\ \A S \in QueryScopes : query(RegOf(r), q, S) = ScopeFilter(M, S)
  /\ ret.op = "query" =>
       \A M \in {Match(RegOf(ret.r), ret.key)} :
         ret.val = (IF M # Undefined /\ LevelBits(ret.scope) \cap LevelBits(DefObj[M].scope) # {}
                                     /\ TypeBits(ret.scope) \cap TypeBits(DefObj[M].scope) # {}
                    THEN M ELSE Undefined)

\* The inline blot named "a" was queried by name under the block scope: null.
C5_Witness ==
  /\ Get(types["r1"], "a") = "AuthorBlot"
  /\ ret.op = "query" /\ ret.key = StrKey("a") /\ ret.scope = BLOCK
  /\ ret.val = Undefined

\* What a scope value V resolves to: "block" if V has the block bit (bit 3),
\* else "inline" if V has the inline bit (bit 2).
LevelDefinition(r, V) ==
  IF 3 \in Bits(V) THEN LastNamed(r, "block")
  ELSE IF 2 \in Bits(V) THEN LastNamed(r, "inline")
  ELSE Undefined

\* C6: a scope value V resolves to the definition registered under "block"
\* when V has the block level bit, else to the one registered under "inline"
\* when V has the inline level bit, else to null; block has priority.
C6_ScopeValueResolves ==
  /\ Settled => \A r \in Registries, V \in Scopes :
       /\ Match(RegOf(r), NumKey(V)) = LevelDefinition(r, V)
       /\ query(RegOf(r), NumKey(V), ANY) = Filtered(LevelDefinition(r, V), ANY)
  /\ (ret.op = "query" /\ ret.key.t = "number")
       => ret.val = Filtered(LevelDefinition(ret.r, ret.key.v), ret.scope)

\* With "block" and "inline" both registered, query(ANY) gave the block one.
C6_Witness ==
  /\ LastNamed("r1", "block") = "BlockBlot"
  /\ LastNamed("r1", "inline") = "InlineBlot"
  /\ ret.op = "query" /\ ret.key = NumKey(ANY) /\ ret.scope = ANY
  /\ ret.val = "BlockBlot"

\* C7: a string K is looked up by name first and by attribute key only when
\* no definition is named K; an attributor with name A and key K is what
\* both query(A) and query(K) return, and when K is also a definition's name
\* that definition is the match, and the one the scope filter is applied to.
C7_NameBeforeAttributeKey ==
  /\ Settled => \A r \in Registries, K \in Strings :
       /\ Match(RegOf(r), StrKey(K)) = Or(LastNamed(r, K), LastKeyed(r, K))
       /\ LastNamed(r, K) # Undefined
            => \A S \in Scopes :
                 query(RegOf(r), StrKey(K), S) = Filtered(LastNamed(r, K), S)
  /\ Settled => \A r \in Registries, A \in Strings, K \in Strings :
       LET H == LastNamed(r, A)
       IN (/\ H # Undefined /\ isAttributor(H) /\ DefObj[H].keyName = K
           /\ LastKeyed(r, K) = H /\ LastNamed(r, K) = Undefined
           /\ Intersects(ANY, H))
            => /\ query(RegOf(r), StrKey(A), ANY) = H
               /\ query(RegOf(r), StrKey(K), ANY) = H
  /\ (ret.op = "query" /\ ret.key.t = "string")
       => ret.val = Filtered(Or(LastNamed(ret.r, ret.key.s), LastKeyed(ret.r, ret.key.s)),
                             ret.scope)

\* "k" is the key of Color and the name of Id: query("k") matched Id, which
\* the scope filter rejected, and did not fall back to Color.
C7_Witness ==
  /\ LastKeyed("r1", "k") = "Color"
  /\ LastNamed("r1", "k") = "Id"
  /\ Intersects(ANY, "Color")
  /\ ret.op = "query" /\ ret.key = StrKey("k") /\ ret.scope = ANY
  /\ ret.val = Undefined

\* ------------------------------------------------- claims on create, find
BlotIndex(b) == CHOOSE i \in 1..Len(BlotSeq) : BlotSeq[i] = b
DomNode(b) == blotObjs[BlotIndex(b)].domNode

\* The blot the most recent successful create bound to node n.
LastBlotOn(n) ==
  LET I == {i \in 1..Len(blotObjs) : blotObjs[i].domNode = n}
  IN IF I = {} THEN Undefined ELSE BlotSeq[Max(I)]

\* C8: create followed immediately by find(node, false) on the created
\* blot's node returns the object create returned, whether the input was an
\* existing node (the blot is built around it) or a name or scope (the blot
\* is built around a node not seen before).
C8_CreateThenFind ==
  [][(ret.op = "create" /\ ret.err = "")
       => /\ (ret.key.t = "node" => DomNode(ret.val) = ret.key.n)
          /\ (ret.key.t # "node"
                => /\ DomNode(ret.val) \in NewNodes
                   /\ \A i \in 1..(Len(blotObjs) - 1) : blotObjs[i].domNode # DomNode(ret.val))
          /\ (ret'.op = "find" /\ ~ret'.bubble /\ ret'.key = NodeKey(DomNode(ret.val)))
                => ret'.val = ret.val]_vars

\* find(node, false) was called on the synthesized node of the blot created
\* last, after a blot around an existing node, and returned that blot.
C8_Witness ==
  /\ Len(blotObjs) = 2
  /\ blotObjs[1].domNode \in DocNodes
  /\ blotObjs[2].domNode \in NewNodes
  /\ ret.op = "find" /\ ~ret.bubble /\ ret.key = NodeKey(blotObjs[2].domNode)
  /\ ret.val = BlotSeq[2]

\* C9: the table is one for all instances and a create overwrites the entry
\* of its node: find(n), through any instance or Registry itself, returns
\* the blot of the most recent successful create on n, whoever created it.
C9_SharedTableLastCreateWins ==
  /\ \A n \in Nodes : find(blots, n, FALSE) = LastBlotOn(n)
  /\ (ret.op = "find" /\ ~ret.bubble /\ ret.key.t = "node")
       => ret.val = LastBlotOn(ret.key.n)
  /\ (ret.op = "create" /\ ret.err = "") => LastBlotOn(DomNode(ret.val)) = ret.val

\* r1 then r2 created a blot on the same node; find through r1 gave r2's.
C9_Witness ==
  /\ Len(blotObjs) = 2
  /\ blotObjs[1].r = "r1" /\ blotObjs[2].r = "r2"
  /\ blotObjs[1].domNode = blotObjs[2].domNode
  /\ ret.op = "find" /\ ret.r = "r1" /\ ~ret.bubble
  /\ ret.key = NodeKey(blotObjs[2].domNode)
  /\ ret.val = BlotSeq[2]

RECURSIVE Ancestors(_)
\* The proper ancestors of n, nearest first.
Ancestors(n) ==
  IF parentNode(n) \in {Undefined, Throws} THEN <<>>
  ELSE <<parentNode(n)>> \o Ancestors(parentNode(n))

\* What find is to return.
Found(n, bubble) ==
  IF n = Undefined THEN Undefined
  ELSE IF n \in DOMAIN blots THEN blots[n]
  ELSE IF ~bubble THEN Undefined
  ELSE LET A == Ancestors(n)
           I == {i \in 1..Len(A) : A[i] \in DOMAIN blots}
       IN IF I = {} THEN Undefined ELSE blots[A[Min(I)]]

\* C10: find(null) is null; an associated node gives its own blot whatever
\* bubble is; an unassociated node gives null when bubble is false, even
\* under an associated ancestor, and when bubble is true the blot of its
\* nearest associated proper ancestor, or null when there is none.
C10_Find ==
  /\ \A n \in Nodes \cup {Undefined}, b \in BOOLEAN : find(blots, n, b) = Found(n, b)
  /\ ret.op = "find"
       => ret.val = Found(IF ret.key.t = "node" THEN ret.key.n ELSE Undefined, ret.bubble)

\* n5 and its parent n3 have no blot, its grandparent n2 has one:
\* find(n5, true) returned n2's blot.
C10_Witness ==
  /\ "n5" \notin DOMAIN blots /\ "n3" \notin DOMAIN blots /\ "n2" \in DOMAIN blots
  /\ ret.op = "find" /\ ret.bubble /\ ret.key = NodeKey("n5")
  /\ ret.val = blots["n2"]

\* C11 as stated: create fails with "Unable to create" exactly when
\* query(input, ANY) is null, and in every other case, whatever the key
\* resolves to, returns a blot built by the resolved definition.
C11_CreateReturnsBlotUnlessNull ==
  ret.op = "create" =>
    \A m \in {query(RegOf(ret.r), ret.key, ANY)} :
      /\ (ret.err = "Unable to create blot") <=> (m = Undefined)
      /\ m # Undefined
           => /\ ret.err = ""
              /\ ret.val \in {BlotSeq[i] : i \in 1..Len(blotObjs)}
              /\ blotObjs[BlotIndex(ret.val)].def = m

\* C11 (amended): create fails with "Unable to create" exactly when
\* query(input, ANY) is null; when the key resolves to a blot constructor it
\* returns a new blot built by it and bound to its node; when the key
\* resolves to an attributor it fails with another error; a create that
\* fails changes no entry of the table and no index.
C11_CreateOutcome ==
  [][ret'.op = "create" =>
       \A m \in {query(RegOf(ret'.r), ret'.key, ANY)} :
         /\ (ret'.err = "Unable to create blot") <=> (m = Undefined)
         /\ (m # Undefined /\ isBlotConstructor(m))
              => /\ ret'.err = ""
                 /\ ret'.val = BlotSeq[Len(blotObjs) + 1]
                 /\ Len(blotObjs') = Len(blotObjs) + 1
                 /\ blotObjs'[Len(blotObjs')].def = m
                 /\ Get(blots', blotObjs'[Len(blotObjs')].domNode) = ret'.val
         /\ (m # Undefined /\ isAttributor(m))
              => ret'.err \notin {"", "Unable to create blot"}
         /\ ret'.err # ""
              => /\ ret'.val = Undefined
                 /\ UNCHANGED <<blots, blotObjs, types, attributes, classes, tags, tagName>>
    ]_vars

\* After one blot was created, create("block") on an instance where "block"
\* names the attributor Align failed, not with "Unable to create", and the
\* table still has its one entry.
C11_Witness ==
  /\ ret.op = "create" /\ ret.key = StrKey("block")
  /\ query(RegOf(ret.r), ret.key, ANY) = "Align"
  /\ ret.err = "TypeError" /\ ret.val = Undefined
  /\ Len(blotObjs) = 1 /\ Cardinality(DOMAIN blots) = 1

\* ------------------------------------------------ claims on failing batches
\* The blot constructors named "abstract", the positions of a batch holding
\* one, and the positions holding what the map callback throws on.
AbstractBlots == {d \in Defs : isBlotConstructor(d) /\ DefObj[d].name = "abstract"}
AbstractAt(B) == {i \in 1..Len(B) : B[i] \in AbstractBlots}
InvalidAt(B) == {i \in 1..Len(B) : ~isBlotConstructor(B[i]) /\ ~isAttributor(B[i])}
Offending(B) == AbstractAt(B) \cup InvalidAt(B)

\* C12 as stated: a register call whose batch holds a blot constructor named
\* "abstract" fails with "Cannot register abstract class" and leaves
\* by-name, by-tag and by-class as they were before the call.
C12_AbstractBatchLeavesTables ==
  [][(ret'.op = "register" /\ AbstractAt(ret'.batch) # {})
       => /\ ret'.err = "Cannot register abstract class"
          /\ UNCHANGED <<types, tags, classes>>]_vars

\* C12 (amended): such a call always fails, with "Cannot register abstract
\* class" when no invalid definition comes before the first abstract one;
\* afterwards the tables hold what they held before plus the insertions of
\* the definitions that come before the first offending one, and are
\* exactly what they were when the abstract descriptor is the first of the
\* batch.
C12_AbstractFailsAtItsPosition ==
  [][(ret'.op = "register" /\ AbstractAt(ret'.batch) # {})
       => \A k \in {Min(Offending(ret'.batch))} :
            /\ ret'.err # ""
            /\ (ret'.err = "Cannot register abstract class") <=> (k \in AbstractAt(ret'.batch))
            /\ \A P \in {register(RegOf(ret'.r), tagName, SubSeq(ret'.batch, 1, k - 1))} :
                 /\ P.err = ""
                 /\ types'[ret'.r] = P.types /\ tags'[ret'.r] = P.tags
                 /\ classes'[ret'.r] = P.classes /\ attributes'[ret'.r] = P.attributes
            /\ Len(log') = Len(log) + k - 1
            /\ k = 1 => UNCHANGED <<types, tags, classes, attributes, tagName, log>>
    ]_vars

\* register(AuthorBlot, ShadowBlot) failed on the abstract ShadowBlot after
\* AuthorBlot was inserted; ShadowBlot, with the same tag and class, was not.
C12_Witness ==
  /\ ret.op = "register" /\ ret.batch = <<"AuthorBlot", "ShadowBlot">>
  /\ ret.err = "Cannot register abstract class"
  /\ Registered("r1") = <<"AuthorBlot">>
  /\ Get(types["r1"], "a") = "AuthorBlot" /\ Get(types["r1"], "abstract") = Undefined
  /\ Get(classes["r1"], "c1") = "AuthorBlot" /\ Get(tags["r1"], "X") = "AuthorBlot"

\* A definition the map callback inserts: an attributor, or a blot
\* constructor not named "abstract".
Registrable(d) == isAttributor(d) \/ (isBlotConstructor(d) /\ d \notin AbstractBlots)

\* C13 as stated: a batch with one definition that is neither a blot
\* constructor nor an attributor (the others being registrable) fails with
\* "Invalid definition", and every other definition of the batch, before
\* and after the invalid one, is inserted: by-name holds it, or a later
\* definition of the batch with its name.
C13_OthersStillInserted ==
  [][(/\ ret'.op = "register"
      /\ Cardinality(InvalidAt(ret'.batch)) = 1
      /\ AbstractAt(ret'.batch) = {})
       => /\ ret'.err = "Invalid definition"
          /\ \A i \in 1..Len(ret'.batch) :
               Registrable(ret'.batch[i])
                 => Get(types'[ret'.r], DefObj[ret'.batch[i]].name)
                      \in {ret'.batch[j] : j \in i..Len(ret'.batch)}]_vars

\* C13 (amended): a batch holding an invalid definition fails, with "Invalid
\* definition" when no abstract blot constructor comes before the first
\* invalid one; the definitions before the first offending one are mapped
\* and inserted, and none after it is: its by-name entry is what it was.
C13_InvalidStopsTheBatch ==
  [][(ret'.op = "register" /\ InvalidAt(ret'.batch) # {})
       => \A k \in {Min(Offending(ret'.batch))} :
            /\ ret'.err # ""
            /\ (ret'.err = "Invalid definition") <=> (k \in InvalidAt(ret'.batch))
            /\ log' = log \o LogOf(ret'.r, SubSeq(ret'.batch, 1, k - 1))
            /\ \A i \in 1..(k - 1) :
                 Get(types'[ret'.r], DefObj[ret'.batch[i]].name)
                   \in {ret'.batch[j] : j \in i..(k - 1)}
            /\ \A i \in (k + 1)..Len(ret'.batch) :
                 (/\ Registrable(ret'.batch[i])
                  /\ \A j \in 1..(k - 1) :
                       DefObj[ret'.batch[j]].name # DefObj[ret'.batch[i]].name)
                   => Get(types'[ret'.r], DefObj[ret'.batch[i]].name)
                        = Get(types[ret'.r], DefObj[ret'.batch[i]].name)
    ]_vars

\* register(NotADef, BlockBlot) failed on NotADef, and BlockBlot, which
\* comes after it, was not inserted.
C13_Witness ==
  /\ ret.op = "register" /\ ret.batch = <<"NotADef", "BlockBlot">>
  /\ ret.err = "Invalid definition"
  /\ Get(types["r1"], "block") = Undefined /\ Get(tags["r1"], "Y") = Undefined
  /\ Registered("r1") = <<>>

\* ----------------------------------------------- claims on re-registration
\* The four indices of a register result.
Indices(S) ==
  [types |-> S.types, attributes |-> S.attributes, classes |-> S.classes, tags |-> S.tags]

\* C14: register is idempotent: in every state, registering a definition D
\* a second time right after the first, in a second call or in the same
\* batch, leaves the four indices as the first registration left them,
\* whoever holds D's tags before.
C14_RegisterIdempotent ==
  /\ [](Settled =>
         \A r \in Registries, D \in Defs :
           \A S1 \in {register(RegOf(r), tagName, <<D>>)} :
             /\ Indices(register(Indices(S1), S1.tagName, <<D>>)) = Indices(S1)
             /\ Indices(register(RegOf(r), tagName, <<D, D>>)) = Indices(S1))
  /\ [][(/\ ret.op = "register" /\ Len(ret.batch) = 1
          /\ ret'.op = "register" /\ ret'.batch = ret.batch /\ ret'.r = ret.r)
           => UNCHANGED <<types, attributes, classes, tags>>]_vars
  /\ [][(/\ ret'.op = "register" /\ Len(ret'.batch) = 2
          /\ ret'.batch[1] = ret'.batch[2])
           => [types |-> types'[ret'.r], attributes |-> attributes'[ret'.r],
               classes |-> classes'[ret'.r], tags |-> tags'[ret'.r]]
                = Indices(register(RegOf(ret'.r), tagName, <<ret'.batch[1]>>))]_vars

\* ListItem (tags x and Y, class c2) was registered twice in two calls: its
\* tags, upper-cased by the first, are held as after the first.
C14_Witness ==
  /\ ret.op = "register" /\ ret.batch = <<"ListItem">> /\ ret.err = ""
  /\ Registered("r1") = <<"ListItem", "ListItem">>
  /\ tagName["ListItem"].v = <<"X", "Y">>
  /\ RegOf("r1") = Indices(register(EmptyRegistry, [d \in Defs |-> DefObj[d].tagName], <<"ListItem">>))

\* The definitions an index holds.
Held(m) == {m[k] : k \in DOMAIN m}

\* C15: no blot constructor named "abstract" is held by by-name, by-class or
\* by-tag, whatever register calls succeeded or failed before, and no query
\* returns one.
C15_NoAbstractStored ==
  /\ \A r \in Registries :
       (Held(types[r]) \cup Held(classes[r]) \cup Held(tags[r])) \cap AbstractBlots = {}
  /\ Settled => \A r \in Registries, q \in AllKeys : Match(RegOf(r), q) \notin AbstractBlots
  /\ ret.op = "query" => ret.val \notin AbstractBlots
  /\ \A i \in 1..Len(log) : log[i].d \notin AbstractBlots

\* After the attributor named "abstract" was registered, registering the
\* abstract ShadowBlot failed: by-name still holds the attributor under
\* "abstract", and ShadowBlot's class and tag have no entry.
C15_Witness ==
  /\ ret.op = "register" /\ ret.batch = <<"ShadowBlot">>
  /\ ret.err = "Cannot register abstract class"
  /\ Registered("r1") = <<"Reserved">>
  /\ Get(types["r1"], "abstract") = "Reserved"
  /\ Get(classes["r1"], "c1") = Undefined /\ Get(tags["r1"], "X") = Undefined

\* C16: registering D2 under a name N that by-name holds for another
\* definition D1 replaces the by-name entry of N and nothing else of by-name;
\* a by-class, by-tag or by-attribute-key entry changes only where D2's own
\* insertion writes it (its class name; its tags when D2 has no class name;
\* its key name), so the entries D1 left elsewhere stay; after AuthorBlot
\* and then ListItem, both named "a", the element n2 still resolves to
\* AuthorBlot while query("a") returns ListItem.
C16_RenamedKeepsOtherEntries ==
  /\ [][(/\ ret'.op = "register" /\ ret'.err = "" /\ Len(ret'.batch) = 1
          /\ Get(types[ret'.r], DefObj[ret'.batch[1]].name) \notin {Undefined, ret'.batch[1]})
           => \A r \in {ret'.r}, D2 \in {ret'.batch[1]} :
                /\ DOMAIN types'[r] = DOMAIN types[r]
                /\ \A N \in DOMAIN types[r] :
                     types'[r][N] = IF N = DefObj[D2].name THEN D2 ELSE types[r][N]
                /\ \A c \in DOMAIN classes[r] :
                     classes'[r][c] = IF isBlotConstructor(D2) /\ DefObj[D2].className = c
                                      THEN D2 ELSE classes[r][c]
                /\ \A T \in DOMAIN tags[r] :
                     tags'[r][T] = IF /\ isBlotConstructor(D2) /\ T \in DeclaredTags(D2)
                                      /\ DefObj[D2].className = Undefined
                                   THEN D2 ELSE tags[r][T]
                /\ \A K \in DOMAIN attributes[r] :
                     attributes'[r][K] = IF isAttributor(D2) /\ DefObj[D2].keyName = K
                                         THEN D2 ELSE attributes[r][K]]_vars
  /\ [](Registered("r1") = <<"AuthorBlot", "ListItem">>
         => /\ query(RegOf("r1"), StrKey("a"), ANY) = "ListItem"
            /\ query(RegOf("r1"), NodeKey("n2"), ANY) = "AuthorBlot"
            /\ query(RegOf("r1"), NodeKey("n3"), ANY) = "AuthorBlot")
  /\ [](Registered("r1") = <<"Align", "BlockBlot">>
         => /\ query(RegOf("r1"), StrKey("block"), ANY) = "BlockBlot"
            /\ query(RegOf("r1"), StrKey("b"), ANY) = "Align")

\* AuthorBlot then ListItem were registered under "a": by-name holds
\* ListItem, and the query of n3 (tag X, no class) returned AuthorBlot.
C16_Witness ==
  /\ Registered("r1") = <<"AuthorBlot", "ListItem">>
  /\ Get(types["r1"], "a") = "ListItem"
  /\ Get(classes["r1"], "c1") = "AuthorBlot"
  /\ ret.op = "query" /\ ret.key = NodeKey("n3") /\ ret.scope = ANY
  /\ ret.val = "AuthorBlot"

\* ------------------------------------------------ claims on the bubble walk
\* The nodes a walk from n can reach: n and the ancestors its readable
\* parent links lead to, nearest first.
WalkPath(n) == IF n = Undefined THEN <<>> ELSE <<n>> \o Ancestors(n)

\* The blot of the first associated node of a path, or null.
FirstBlot(path) ==
  LET I == {i \in 1..Len(path) : path[i] \in DOMAIN blots}
  IN IF I = {} THEN Undefined ELSE blots[path[Min(I)]]

\* The walk from n ends at a parent link that cannot be read.
EndsAtFailure(n) == parentNode(WalkPath(n)[Len(WalkPath(n))]) = Throws

\* C17: a find call with bubble set always returns; while it runs it is at a
\* node of the path from its start or past the root, after no more parent
\* links than the path has; it returns at the first associated node; and
\* it returns without error the blot of the first associated node of the
\* path, or null when there is none: at the root, or at a parent link that
\* cannot be read, whatever is associated above that link.
C17_BubbleTerminates ==
  /\ (ret.op = "finding") ~> (ret.op = "find")
  /\ [](walk.active =>
         /\ walk.hops <= Len(WalkPath(walk.start))
         /\ \/ walk.at = Undefined /\ walk.hops = Len(WalkPath(walk.start))
            \/ walk.at # Undefined /\ walk.at = WalkPath(walk.start)[walk.hops + 1]
         /\ \A i \in 1..walk.hops : WalkPath(walk.start)[i] \notin DOMAIN blots)
  /\ [][(walk.active /\ walk.at \in DOMAIN blots)
          => (~walk'.active /\ ret'.op = "find" /\ ret'.val = blots[walk.at])]_vars
  /\ []((ret.op = "find" /\ ret.bubble /\ ret.key.t = "node")
          => /\ ret.err = ""
             /\ ret.val = FirstBlot(WalkPath(ret.key.n))
             /\ (EndsAtFailure(ret.key.n)
                   /\ \A i \in 1..Len(WalkPath(ret.key.n)) :
                        WalkPath(ret.key.n)[i] \notin DOMAIN blots)
                  => ret.val = Undefined)

\* find(n8, true) walked to n7, whose parent link cannot be read, and
\* returned null although n2, which holds n7, is associated.
C17_Witness ==
  /\ ret.op = "find" /\ ret.bubble /\ ret.key = NodeKey("n8")
  /\ ret.val = Undefined /\ ret.err = ""
  /\ WalkPath("n8") = <<"n8", "n7">> /\ EndsAtFailure("n8")
  /\ Container("n7") \in DOMAIN blots

\* ------------------------------------------------- claims on the by-class index
ClassNames == {"c1", "c2", "zz", ""}

\* The blot constructor instance r mapped last with the class name c.
LastClassed(r, c) ==
  LET L == Registered(r)
      I == {i \in 1..Len(L) : isBlotConstructor(L[i]) /\ DefObj[L[i]].className = c}
  IN IF I = {} THEN Undefined ELSE L[Max(I)]

\* The first class token of element n that has a by-class entry, if any.
FirstClassHit(r, n) ==
  LET toks == Split(NodeObj[n].class)
      hits == {i \in 1..Len(toks) : Get(classes[r], toks[i]) # Undefined}
  IN IF hits = {} THEN Undefined ELSE toks[Min(hits)]

\* C18: by-class has no tie-break: by-class[c] is the blot constructor
\* registered last with the class name c, and an element whose class
\* attribute selects c resolves to it, whoever holds the element's tag;
\* after AuthorBlot (class c1, tag x) and InlineBlot (class c1) the element
\* n2 (tag X, class c1) resolves to InlineBlot while by-tag[X] holds
\* AuthorBlot.
C18_ClassLastWins ==
  /\ \A r \in Registries, c \in ClassNames : Get(classes[r], c) = LastClassed(r, c)
  /\ Settled => \A r \in Registries, n \in ElementNodes :
       FirstClassHit(r, n) # Undefined
         => /\ Match(RegOf(r), NodeKey(n)) = LastClassed(r, FirstClassHit(r, n))
            /\ query(RegOf(r), NodeKey(n), ANY)
                 = Filtered(LastClassed(r, FirstClassHit(r, n)), ANY)
  /\ Registered("r1") = <<"AuthorBlot", "InlineBlot">>
       => /\ Get(tags["r1"], "X") = "AuthorBlot"
          /\ query(RegOf("r1"), NodeKey("n2"), ANY) = "InlineBlot"
  /\ (ret.op = "query" /\ ret.key.t = "node" /\ ret.key.n \in ElementNodes
        /\ FirstClassHit(ret.r, ret.key.n) # Undefined)
       => ret.val = Filtered(LastClassed(ret.r, FirstClassHit(ret.r, ret.key.n)), ret.scope)

\* AuthorBlot then InlineBlot, both of class c1: by-tag[X] still holds
\* AuthorBlot, and the query of n2 (tag X, class c1) returned InlineBlot.
C18_Witness ==
  /\ Registered("r1") = <<"AuthorBlot", "InlineBlot">>
  /\ Get(tags["r1"], "X") = "AuthorBlot"
  /\ Get(classes["r1"], "c1") = "InlineBlot"
  /\ ret.op = "query" /\ ret.key = NodeKey("n2") /\ ret.scope = ANY
  /\ ret.val = "InlineBlot"

\* --------------------------------------------------- claims on what changes
\* C19: a query and a find change no index and not the table, whatever
\* they return; a register does not change the table; a create that
\* succeeds changes no index, and changes the table at the node of the
\* blot it returns and nowhere else.
C19_ReadsArePure ==
  [][/\ ret'.op \in {"query", "find"}
          => UNCHANGED <<types, attributes, classes, tags, tagName, blots, blotObjs, log>>
     /\ ret'.op = "register" => UNCHANGED <<blots, blotObjs>>
     /\ (ret'.op = "create" /\ ret'.err = "")
          => /\ UNCHANGED <<types, attributes, classes, tags, tagName, log>>
             /\ \A node \in {blotObjs'[Len(blotObjs')].domNode} :
                  /\ blots'[node] = ret'.val
                  /\ DOMAIN blots' = DOMAIN blots \cup {node}
                  /\ \A n \in DOMAIN blots : n # node => blots'[n] = blots[n]
    ]_vars

\* After AuthorBlot was registered and a blot created on n2, a second
\* create on n3 succeeded, and n2 has the blot it had.
C19_Witness ==
  /\ Registered("r1") = <<"AuthorBlot">>
  /\ ret.op = "create" /\ ret.err = "" /\ ret.key = NodeKey("n3") /\ ret.val = "blot2"
  /\ Get(blots, "n2") = "blot1" /\ Get(blots, "n3") = "blot2"

\* ---------------------------------------------- claims on the indices' form
\* The tag strings with a lower-case letter.
LowerCaseTags == {"x", "y"}

\* The tagName field of d as it is now, as a set.
TagField(d) == {tagName[d].v[i] : i \in 1..Len(tagName[d].v)}

\* C20: every by-tag key has no lower-case letter and maps to a blot
\* constructor whose tagName field, upper-cased by register, has the key;
\* every by-class key maps to a blot constructor with that class name;
\* every by-attribute-key key maps to an attributor with that key name; no
\* step removes a key from an index; a registered blot constructor's tag
\* declared in lower case is a by-tag key in upper case, where the node
\* with the upper-case tag finds a declarer of it; and the match of an
\* element is never an attributor.
C20_IndicesWellFormed ==
  /\ [](\A r \in Registries :
          /\ \A T \in DOMAIN tags[r] :
               /\ T \notin LowerCaseTags
               /\ isBlotConstructor(tags[r][T])
               /\ T \in TagField(tags[r][T])
               /\ T \in DeclaredTags(tags[r][T])
          /\ \A c \in DOMAIN classes[r] :
               isBlotConstructor(classes[r][c]) /\ DefObj[classes[r][c]].className = c
          /\ \A K \in DOMAIN attributes[r] :
               isAttributor(attributes[r][K]) /\ DefObj[attributes[r][K]].keyName = K
          /\ \A i \in 1..Len(Registered(r)) :
               isBlotConstructor(Registered(r)[i])
                 => \A j \in 1..Len(DefObj[Registered(r)[i]].tagName.v) :
                      \A t \in {DefObj[Registered(r)[i]].tagName.v[j]} :
                        /\ toUpperCase(t) \in DOMAIN tags[r]
                        /\ t \in LowerCaseTags => t \notin DOMAIN tags[r]
                        /\ \A n \in ClasslessNodes :
                             NodeObj[n].tagName = toUpperCase(t)
                               => /\ Match(RegOf(r), NodeKey(n)) # Undefined
                                  /\ toUpperCase(t) \in DeclaredTags(Match(RegOf(r), NodeKey(n))))
  /\ [](Settled => \A r \in Registries, n \in ElementNodes :
          \A M \in {Match(RegOf(r), NodeKey(n))} : M # Undefined => isBlotConstructor(M))
  /\ []((ret.op = "query" /\ ret.key.t = "node" /\ ret.key.n \in ElementNodes
           /\ ret.val # Undefined) => isBlotConstructor(ret.val))
  /\ [][\A r \in Registries :
          /\ DOMAIN types[r] \subseteq DOMAIN types'[r]
          /\ DOMAIN attributes[r] \subseteq DOMAIN attributes'[r]
          /\ DOMAIN classes[r] \subseteq DOMAIN classes'[r]
          /\ DOMAIN tags[r] \subseteq DOMAIN tags'[r]]_vars

\* AuthorBlot declares the tag "x": after its registration and Color's its
\* tagName field is "X", by-tag holds it under "X" and not under "x", and
\* the query of n3, whose tag is X, returned it.
C20_Witness ==
  /\ Registered("r1") = <<"AuthorBlot", "Color">>
  /\ DefObj["AuthorBlot"].tagName.v = <<"x">> /\ tagName["AuthorBlot"].v = <<"X">>
  /\ DOMAIN tags["r1"] = {"X"} /\ DOMAIN attributes["r1"] = {"k"}
  /\ ret.op = "query" /\ ret.key = NodeKey("n3") /\ ret.scope = ANY
  /\ ret.val = "AuthorBlot"

====
